---- MODULE Spec2Model ----
(***************************************************************************)
(* Authentication pipeline of the FastAPI application:                     *)
(*   app/auth/utils.py            encode_jwt, decode_jwt, hash_password,   *)
(*                                validate_password                        *)
(*   app/services/auth_service.py create_user, validate_auth_user,         *)
(*                                get_current_token_payload,               *)
(*                                get_current_auth_user,                   *)
(*                                get_current_active_user                  *)
(*   app/models/user.py, app/database/base_class.py   the users table      *)
(*   app/crud/base.py             BaseCrud.create                          *)
(*   app/database/db.py           get_db                                   *)
(***************************************************************************)
EXTENDS Integers, Sequences, FiniteSets, TLC

VARIABLES
    users,      \* rows of the "users" table
    nextId,     \* next primary key uuid4 hands out (never reused)
    now,        \* the clock, in minutes
    session,    \* per create_user call: its db session (pending row, result)
    login,      \* the last validate_auth_user call and its outcome
    issued,     \* the token encode_jwt has issued (with its inputs), held by the client
    req,        \* the protected request being resolved and its outcome
    denylist    \* the revocation store behind the RevocationGate

vars == <<users, nextId, now, session, login, issued, req, denylist>>

----------------------------------------------------------------------------
(* Bounds of the model *)

MaxUsers == 2
MaxTime == 45

(* Granularity of the clock: one step of the clock is TickMinutes minutes. *)
TickMinutes == 15

Emails == {"a@x.com", "b@x.com"}
Passwords == {"Abcdef1!", "Zyxwvu9?"}
Salts == {"salt1"}
FirstNames == {"John"}
LastNames == {"Doe"}
Sessions == {"s1", "s2"}

(* Optional[...] values: None is the empty sequence, a value v is <<v>>. *)
None == <<>>
Some(v) == <<v>>
Range(f) == {f[i] : i \in DOMAIN f}

----------------------------------------------------------------------------
(* PasswordHasher: app/auth/utils.py *)

(* bcrypt.hashpw(password, salt): the self-describing hash string, which   *)
(* carries the salt it was made with.                                      *)
hashpw(password, salt) ==
    [fmt |-> "bcrypt", salt |-> salt, digest |-> password]

(* hash_password: salt = bcrypt.gensalt() is the random choice of the      *)
(* caller's action.                                                        *)
hash_password(password, salt) == hashpw(password, salt)

(* A string stored verbatim in the password column (no hash format).       *)
plaintext(password) ==
    [fmt |-> "plain", salt |-> "", digest |-> password]

StoredPasswords ==
    {hash_password(p, s) : p \in Passwords, s \in Salts}
        \cup {plaintext(p) : p \in Passwords}

(* validate_password: bcrypt.checkpw(password, hash_pass) re-hashes with   *)
(* the salt embedded in hash_pass and compares; on a hash_pass that is not *)
(* a bcrypt hash it raises ValueError("Invalid salt"), which               *)
(* validate_password does not catch.                                       *)
validate_password(password, hash_pass) ==
    IF hash_pass.fmt # "bcrypt"
    THEN "ValueError"
    ELSE IF hashpw(password, hash_pass.salt) = hash_pass THEN "True" ELSE "False"

----------------------------------------------------------------------------
(* The users table: app/models/user.py, app/database/base_class.py *)

User(id, first_name, last_name, email, password, access, is_active, t) ==
    [id |-> id, first_name |-> first_name, last_name |-> last_name,
     email |-> email, password |-> password, access |-> access,
     is_active |-> is_active, created_at |-> t, updated_at |-> t,
     deleted_at |-> None]

(* unique=True on users.email: an INSERT of a row whose email is already   *)
(* held by a row raises IntegrityError.                                    *)
EmailUnique(table, email) == \A u \in table : u.email # email

(* select(User).where(User.email == email) ... .first() *)
get_user_by_email(table, email) ==
    IF \E u \in table : u.email = email
    THEN Some(CHOOSE u \in table : u.email = email)
    ELSE None

(* select(User).where(User.id == user_uuid) ... .first() *)
get_user_by_id(table, id) ==
    IF \E u \in table : u.id = id
    THEN Some(CHOOSE u \in table : u.id = id)
    ELSE None

(* UserRead.model_validate(user_obj): every UserRead field, no password.   *)
UserRead(u) ==
    [id |-> u.id, first_name |-> u.first_name, last_name |-> u.last_name,
     email |-> u.email, access |-> u.access, is_active |-> u.is_active,
     created_at |-> u.created_at, updated_at |-> u.updated_at,
     deleted_at |-> u.deleted_at]

----------------------------------------------------------------------------
(* create_user: app/services/auth_service.py *)

IdleSession == [pc |-> "idle", obj |-> None, result |-> None]

(* hash_password(user.password); User(..., is_active=True, access=True);   *)
(* db.add(user_obj).  The row is pending in the session until commit.      *)
create_user_add(s, first_name, last_name, email, password, salt) ==
    /\ session[s].pc = "idle"
    /\ session' = [session EXCEPT ![s] =
            [pc |-> "added",
             obj |-> Some([first_name |-> first_name, last_name |-> last_name,
                           email |-> email,
                           password |-> hash_password(password, salt),
                           is_active |-> TRUE, access |-> TRUE]),
             result |-> None]]
    /\ UNCHANGED <<users, nextId, now, login, issued, req, denylist>>

(* Variant of CommitAllowed: the email column without its unique index.     *)
CommitAllowed_NoUniqueIndex(table, obj) == TRUE

(* The INSERT of db.commit(): it succeeds when the unique index on email   *)
(* allows the row.                                                         *)
CommitAllowed(table, obj) == EmailUnique(table, obj.email)

(* await db.commit(): the INSERT is atomic in the database.  On            *)
(* IntegrityError: rollback and the error result.  Otherwise refresh and   *)
(* the ok result with UserRead.                                            *)
create_user_commit(s) ==
    /\ session[s].pc = "added"
    /\ LET obj == session[s].obj[1]
           row == User(nextId, obj.first_name, obj.last_name, obj.email,
                       obj.password, obj.access, obj.is_active, now)
       IN IF CommitAllowed(users, obj)
          THEN /\ nextId <= MaxUsers
               /\ users' = users \cup {row}
               /\ nextId' = nextId + 1
               /\ session' = [session EXCEPT ![s] =
                      [pc |-> "idle", obj |-> None,
                       result |-> Some([status |-> "ok",
                                        message |-> "",
                                        user |-> Some(UserRead(row))])]]
          ELSE /\ UNCHANGED <<users, nextId>>
               /\ session' = [session EXCEPT ![s] =
                      [pc |-> "idle", obj |-> None,
                       result |-> Some([status |-> "error",
                                        message |-> "User with this email already exists",
                                        user |-> None])]]
    /\ UNCHANGED <<now, login, issued, req, denylist>>

----------------------------------------------------------------------------
(* BaseCrud.create: app/crud/base.py *)

(* db_obj = self.model(obj_data); add; commit; refresh.  The row is        *)
(* stored as given: the password column receives obj_data["password"]      *)
(* verbatim.  On a duplicate email the IntegrityError leaves the table     *)
(* unchanged.                                                              *)
BaseCrud_create(first_name, last_name, email, password, access, is_active) ==
    /\ nextId <= MaxUsers
    /\ EmailUnique(users, email)
    /\ users' = users \cup {User(nextId, first_name, last_name, email,
                                 password, access, is_active, now)}
    /\ nextId' = nextId + 1
    /\ UNCHANGED <<now, session, login, issued, req, denylist>>

----------------------------------------------------------------------------
(* validate_auth_user: app/services/auth_service.py *)

HTTP_401_UNAUTHORIZED == 401
HTTP_403_FORBIDDEN == 403

HTTPException(status_code, detail) ==
    [kind |-> "HTTPException", status |-> status_code, detail |-> detail,
     user |-> None]

Returned(schema) ==
    [kind |-> "return", status |-> 200, detail |-> <<>>, user |-> Some(schema)]

(* An exception no handler of the service catches. *)
Unhandled(exc) ==
    [kind |-> exc, status |-> 500, detail |-> <<>>, user |-> None]

InvalidCredentials == HTTPException(HTTP_401_UNAUTHORIZED, <<"Invalid credentials.">>)

(* UserSchemas(id=..., ..., deleted_at=...) of validate_auth_user: access  *)
(* is not passed and takes the schema default False.                       *)
LoginSchema(u) ==
    [id |-> u.id, first_name |-> u.first_name, last_name |-> u.last_name,
     email |-> u.email, access |-> FALSE, is_active |-> u.is_active,
     created_at |-> u.created_at, updated_at |-> u.updated_at,
     deleted_at |-> u.deleted_at]

(* Variant of LoginPasswordStep: the is_active check made before the        *)
(* password check.                                                         *)
LoginPasswordStep_ActiveFirst(u, password) ==
    LET v == validate_password(password, u.password)
    IN IF ~u.is_active
       THEN HTTPException(HTTP_403_FORBIDDEN,
                          <<"User", u.email, "has not been activated">>)
       ELSE IF v = "ValueError" THEN Unhandled("ValueError")
       ELSE IF v # "True" THEN InvalidCredentials
       ELSE Returned(LoginSchema(u))

(* Lines 115-136 of validate_auth_user: password check, then the           *)
(* is_active check, then the schema.                                       *)
LoginPasswordStep(u, password) ==
    LET v == validate_password(password, u.password)
    IN IF v = "ValueError" THEN Unhandled("ValueError")
       ELSE IF v # "True" THEN InvalidCredentials
       ELSE IF ~u.is_active
            THEN HTTPException(HTTP_403_FORBIDDEN,
                               <<"User", u.email, "has not been activated">>)
            ELSE Returned(LoginSchema(u))

validate_auth_user_result(table, email, password) ==
    LET found == get_user_by_email(table, email)
    IN IF found = None THEN InvalidCredentials
       ELSE LoginPasswordStep(found[1], password)

(* What await db.execute(select(User)...) does: it returns the statement's *)
(* result ("ok"), or the driver raises (connection lost, statement         *)
(* timeout).                                                               *)
StoreOutcomes == {"ok", "OperationalError", "TimeoutError"}

(* get_db around a request whose db.execute raised: rollback, then raise.  *)
(* Neither _get_user_by_email nor validate_auth_user nor                   *)
(* get_current_auth_user has a handler, so the exception leaves the        *)
(* dependency as it was raised.                                            *)
get_db_reraise(exc) == Unhandled(exc)

NoLogin ==
    [called |-> FALSE, email |-> "", password |-> "", store |-> "ok",
     lookups |-> 0, row |-> None, result |-> InvalidCredentials]

(* validate_auth_user with the outcome of its one db.execute (line 92):    *)
(* there is no loop and no second statement, the lookup is made once.      *)
validate_auth_user_on(store, email, password) ==
    /\ login' = [called |-> TRUE, email |-> email, password |-> password,
                 store |-> store, lookups |-> 1,
                 row |-> IF store = "ok"
                         THEN get_user_by_email(users, email)
                         ELSE None,
                 result |-> IF store = "ok"
                            THEN validate_auth_user_result(users, email, password)
                            ELSE get_db_reraise(store)]
    /\ UNCHANGED <<users, nextId, now, session, issued, req, denylist>>

validate_auth_user(email, password) == validate_auth_user_on("ok", email, password)

----------------------------------------------------------------------------
(* Settings: app/core/config.py *)

settings_private_key == "jwt-private.pem"
settings_public_key == "jwt-public.pem"
settings_algorithm == "RS256"
settings_access_token_expires_minutes == 30
settings_issuer == "ai-assistant-chat"
settings_audience == "ai-assistant-clients"

(* The public key that verifies what a private key signs. *)
PublicKeyOf(private_key) ==
    IF private_key = settings_private_key
    THEN settings_public_key
    ELSE "other-public.pem"

----------------------------------------------------------------------------
(* TokenCodec: app/auth/utils.py *)

RegisteredKeys == {"iss", "aud", "exp", "iat"}

(* json.loads(json.dumps(v)) of a claim value: a tuple comes back as a     *)
(* list; strings, numbers, booleans and lists come back as they were.      *)
(* Values of the custom claim "roles" are tagged with their Python type.   *)
json_roundtrip(k, v) ==
    IF k = "roles" /\ v.t = "tuple" THEN [v EXCEPT !.t = "list"] ELSE v

(* Variant of to_encode: the caller's payload overrides the codec's claims. *)
to_encode_PayloadWins(payload, issuer, audience, exp, iat) ==
    [k \in DOMAIN payload \cup RegisteredKeys |->
        IF k \in DOMAIN payload THEN payload[k]
        ELSE IF k = "iss" THEN issuer
        ELSE IF k = "aud" THEN audience
        ELSE IF k = "exp" THEN exp
        ELSE iat]

(* to_encode = {**payload, "iss": issuer, "aud": audience, "exp": exp,     *)
(* "iat": now}: the codec's four claims override the payload's.            *)
to_encode(payload, issuer, audience, exp, iat) ==
    [k \in DOMAIN payload \cup RegisteredKeys |->
        IF k = "iss" THEN issuer
        ELSE IF k = "aud" THEN audience
        ELSE IF k = "exp" THEN exp
        ELSE IF k = "iat" THEN iat
        ELSE payload[k]]

(* expires_timedelta or timedelta(minutes=expires_in): None and a zero     *)
(* timedelta are falsy.                                                    *)
Lifetime(expires_in, expires_timedelta) ==
    IF expires_timedelta # None /\ expires_timedelta[1] # 0
    THEN expires_timedelta[1]
    ELSE expires_in

(* pyjwt.encode: header {"alg": algorithm}, the payload serialised as JSON *)
(* and the signature made with private_key.                                *)
pyjwt_encode(claims, private_key, algorithm) ==
    [wellformed |-> TRUE, alg |-> algorithm,
     payload |-> [k \in DOMAIN claims |-> json_roundtrip(k, claims[k])],
     signed_by |-> private_key]

encode_jwt(payload, private_key, algorithm, expires_in, expires_timedelta, issuer, audience, t) ==
    pyjwt_encode(to_encode(payload, issuer, audience,
                           t + Lifetime(expires_in, expires_timedelta), t),
                 private_key, algorithm)

(* A bearer string that is no JWT. *)
GarbageToken ==
    [wellformed |-> FALSE, alg |-> "", payload |-> [k \in {} |-> 0],
     signed_by |-> ""]

DecodeFailed(error) == [ok |-> FALSE, error |-> error, claims |-> [k \in {} |-> 0]]
Decoded(claims) == [ok |-> TRUE, error |-> "", claims |-> claims]

(* Variant of AlgorithmAllowed: the header's algorithm is not pinned.       *)
AlgorithmAllowed_Unpinned(alg, algorithm) == alg \in {"RS256", "RS384", "RS512"}

(* algorithms=[algorithm]: the header's alg must be in the list. *)
AlgorithmAllowed(alg, algorithm) == alg \in {algorithm}

(* Variant of ExpiredAt: expiry not verified.                               *)
ExpiredAt_NotVerified(claims, t) == FALSE

(* PyJWT's exp validation: the token is expired when exp <= now.           *)
ExpiredAt(claims, t) == "exp" \in DOMAIN claims /\ claims["exp"] <= t

(* PyJWT's validation of the registered claims, in its order: iat, nbf,    *)
(* exp, iss, aud.                                                          *)
ValidateClaims(claims, issuer, audience, t) ==
    IF "iat" \in DOMAIN claims /\ claims["iat"] > t THEN "ImmatureSignatureError"
    ELSE IF "nbf" \in DOMAIN claims /\ claims["nbf"] > t THEN "ImmatureSignatureError"
    ELSE IF ExpiredAt(claims, t) THEN "ExpiredSignatureError"
    ELSE IF "iss" \notin DOMAIN claims THEN "MissingRequiredClaimError"
    ELSE IF claims["iss"] # issuer THEN "InvalidIssuerError"
    ELSE IF "aud" \notin DOMAIN claims THEN "MissingRequiredClaimError"
    ELSE IF claims["aud"] # audience THEN "InvalidAudienceError"
    ELSE ""

(* decode_jwt: pyjwt.decode(token, public_key, algorithms=[algorithm],     *)
(* audience=audience, issuer=issuer) at time t.  Every error is an         *)
(* InvalidTokenError.                                                      *)
decode_jwt(token, public_key, algorithm, issuer, audience, t) ==
    IF ~token.wellformed THEN DecodeFailed("DecodeError")
    ELSE IF ~AlgorithmAllowed(token.alg, algorithm)
    THEN DecodeFailed("InvalidAlgorithmError")
    ELSE IF PublicKeyOf(token.signed_by) # public_key
    THEN DecodeFailed("InvalidSignatureError")
    ELSE IF ValidateClaims(token.payload, issuer, audience, t) # ""
    THEN DecodeFailed(ValidateClaims(token.payload, issuer, audience, t))
    ELSE Decoded(token.payload)

(* A call of encode_jwt by a route; the client holds the token.  The       *)
(* inputs are kept beside the token.                                       *)
IssueToken(payload, private_key, algorithm, expires_in, expires_timedelta, issuer, audience) ==
    /\ issued = None
    /\ issued' = Some([jwt |-> encode_jwt(payload, private_key, algorithm,
                                          expires_in, expires_timedelta,
                                          issuer, audience, now),
                       payload |-> payload,
                       private_key |-> private_key, algorithm |-> algorithm,
                       issuer |-> issuer, audience |-> audience])
    /\ UNCHANGED <<users, nextId, now, session, login, req, denylist>>

(* Time passes, up to a horizon. *)
TickUpTo(horizon) ==
    /\ now + TickMinutes <= horizon
    /\ now' = now + TickMinutes
    /\ UNCHANGED <<users, nextId, session, login, issued, req, denylist>>

Tick == TickUpTo(MaxTime)

----------------------------------------------------------------------------
(* IdentityResolver: app/services/auth_service.py *)

Unauthenticated == HTTPException(HTTP_401_UNAUTHORIZED, <<"Invalid credentials.">>)

NoRequest ==
    [stage |-> "none", token |-> GarbageToken, decoded_at |-> 0,
     payload |-> None, store |-> "ok", lookups |-> 0, row |-> None,
     result |-> Unauthenticated, active |-> Unauthenticated]

(* get_current_token_payload: decode_jwt(token=token) with the settings'   *)
(* defaults; InvalidTokenError becomes 401.                                *)
get_current_token_payload(credentials) ==
    LET d == decode_jwt(credentials, settings_public_key, settings_algorithm,
                        settings_issuer, settings_audience, now)
    IN /\ req' = IF d.ok
                 THEN [NoRequest EXCEPT !.stage = "payload",
                                        !.token = credentials,
                                        !.decoded_at = now,
                                        !.payload = Some(d.claims)]
                 ELSE [NoRequest EXCEPT !.stage = "done",
                                        !.token = credentials,
                                        !.decoded_at = now]
       /\ UNCHANGED <<users, nextId, now, session, login, issued, denylist>>

(* str(user.id) as a route puts it in "sub". *)
str_uuid(id) == [form |-> "hex", id |-> id]

(* UUID(user_id): the hex and the urn:uuid: forms parse to the id; any     *)
(* other string raises ValueError.                                         *)
UUID(user_id) ==
    IF user_id.form \in {"hex", "urn"} THEN Some(user_id.id) ELSE None

(* payload.get(key) *)
payload_get(claims, key) ==
    IF key \in DOMAIN claims THEN Some(claims[key]) ELSE None

(* Python truth of payload.get("jti"): None and "" are falsy. *)
TruthyJti(jti) == jti # None /\ jti[1] # ""

(* Python truth of payload.get("sub"): None and "" are falsy. *)
TruthySub(sub) == sub # None /\ sub[1].form # "empty"

(* is_jti_in_denylist: the placeholder, return False. *)
is_jti_in_denylist(jti) == FALSE

(* RevocationGate.isRevoked backed by a revocation store. *)
RevocationGate_isRevoked(jti) == jti \in denylist

(* The gate get_current_auth_user awaits: the placeholder of the source,   *)
(* or a store-backed gate in its place.                                    *)
RevocationGate(gate, jti) ==
    IF gate = "placeholder"
    THEN is_jti_in_denylist(jti)
    ELSE RevocationGate_isRevoked(jti)

(* UserSchemas(id=..., ..., access=user.access) of get_current_auth_user. *)
AuthSchema(u) ==
    [id |-> u.id, first_name |-> u.first_name, last_name |-> u.last_name,
     email |-> u.email, access |-> u.access, is_active |-> u.is_active,
     created_at |-> u.created_at, updated_at |-> u.updated_at,
     deleted_at |-> u.deleted_at]

AuthOutcome(result, lookups, row) ==
    [result |-> result, lookups |-> lookups, row |-> row]

(* Lines 196-213: user is None -> 401, else the schema. *)
UserLookupStep(found) ==
    IF found = None
    THEN AuthOutcome(Unauthenticated, 1, found)
    ELSE AuthOutcome(Returned(AuthSchema(found[1])), 1, found)

(* get_current_auth_user, with the revocation gate it awaits. *)
get_current_auth_user_result(gate, claims, table) ==
    LET jti == payload_get(claims, "jti")
        user_id == payload_get(claims, "sub")
    IN IF TruthyJti(jti) /\ RevocationGate(gate, jti[1])
       THEN AuthOutcome(Unauthenticated, 0, None)
       ELSE IF ~TruthySub(user_id)
       THEN AuthOutcome(Unauthenticated, 0, None)
       ELSE IF UUID(user_id[1]) = None
       THEN AuthOutcome(Unauthenticated, 0, None)
       ELSE UserLookupStep(get_user_by_id(table, UUID(user_id[1])[1]))

(* get_current_auth_user with the outcome of its db.execute (line 195):    *)
(* the statement is reached after the gate, the sub check and UUID(sub);   *)
(* when it raises, lines 196-213 are not run.                              *)
get_current_auth_user_result_on(store, gate, claims, table) ==
    LET out == get_current_auth_user_result(gate, claims, table)
    IN IF out.lookups = 1 /\ store # "ok"
       THEN AuthOutcome(get_db_reraise(store), 1, None)
       ELSE out

get_current_auth_user_on(store, gate) ==
    /\ req.stage = "payload"
    /\ LET out == get_current_auth_user_result_on(store, gate, req.payload[1], users)
       IN req' = [req EXCEPT
                    !.stage = IF out.result.kind = "return" THEN "user" ELSE "done",
                    !.store = IF out.lookups = 1 THEN store ELSE "ok",
                    !.lookups = out.lookups,
                    !.row = out.row,
                    !.result = out.result]
    /\ UNCHANGED <<users, nextId, now, session, login, issued, denylist>>

get_current_auth_user_with(gate) == get_current_auth_user_on("ok", gate)

get_current_auth_user == get_current_auth_user_with("placeholder")

(* Variant of ActiveGate: the stricter gate lets every identity through.    *)
ActiveGate_Open(user) == Returned(user)

(* get_current_active_user: the identity if user.is_active, else 403. *)
ActiveGate(user) ==
    IF user.is_active
    THEN Returned(user)
    ELSE HTTPException(HTTP_403_FORBIDDEN, <<"User is not active.">>)

get_current_active_user ==
    /\ req.stage = "user"
    /\ req' = [req EXCEPT !.stage = "done",
                          !.active = ActiveGate(req.result.user[1])]
    /\ UNCHANGED <<users, nextId, now, session, login, issued, denylist>>

----------------------------------------------------------------------------
(* The store's other writers (the collaborators outside the core) *)

(* users.is_active set to false; onupdate=func.now() stamps updated_at. *)
UserDeactivated(id) ==
    /\ \E u \in users : u.id = id /\ u.is_active
    /\ users' = {IF u.id = id
                 THEN [u EXCEPT !.is_active = FALSE, !.updated_at = now]
                 ELSE u : u \in users}
    /\ UNCHANGED <<nextId, now, session, login, issued, req, denylist>>

(* Soft delete: deleted_at set. *)
UserSoftDeleted(id) ==
    /\ \E u \in users : u.id = id /\ u.deleted_at = None
    /\ users' = {IF u.id = id
                 THEN [u EXCEPT !.deleted_at = Some(now), !.updated_at = now]
                 ELSE u : u \in users}
    /\ UNCHANGED <<nextId, now, session, login, issued, req, denylist>>

(* The row removed from the table. *)
UserRemoved(id) ==
    /\ \E u \in users : u.id = id
    /\ users' = {u \in users : u.id # id}
    /\ UNCHANGED <<nextId, now, session, login, issued, req, denylist>>

(* A jti entered in the revocation store. *)
Revoke(jti) ==
    /\ jti \notin denylist
    /\ denylist' = denylist \cup {jti}
    /\ UNCHANGED <<users, nextId, now, session, login, issued, req>>

----------------------------------------------------------------------------
(* Specification of registration and login *)

Init ==
    /\ users = {}
    /\ nextId = 1
    /\ now = 0
    /\ session = [s \in Sessions |-> IdleSession]
    /\ login = NoLogin
    /\ issued = None
    /\ req = NoRequest
    /\ denylist = {}

Register ==
    \E s \in Sessions :
        \/ \E f \in FirstNames, l \in LastNames, e \in Emails,
              p \in Passwords, salt \in Salts :
                create_user_add(s, f, l, e, p, salt)
        \/ create_user_commit(s)

CrudCreate ==
    \E f \in FirstNames, l \in LastNames, e \in Emails,
       p \in StoredPasswords, a \in BOOLEAN, act \in BOOLEAN :
            BaseCrud_create(f, l, e, p, a, act)

Login ==
    \E e \in Emails, p \in Passwords : validate_auth_user(e, p)

Next == Register \/ CrudCreate \/ Login

Spec == Init /\ [][Next]_vars

----------------------------------------------------------------------------
(* Claims checked under Spec *)

LoginFound == login.row # None
LoginVerify == validate_password(login.password, login.row[1].password)

(* C1: validate_auth_user returns the same error (401, "Invalid            *)
(* credentials.") when the email is not in the store as when the email is  *)
(* in the store and the password does not verify, for active and inactive  *)
(* stored users alike.                                                     *)
C1_SameErrorUnknownEmailOrWrongPassword ==
    (login.called /\ (~LoginFound \/ LoginVerify # "True"))
        => login.result = InvalidCredentials

(* C7: validate_auth_user fails with AccountInactive (403) exactly when    *)
(* the user exists, the password verifies and is_active is false.          *)
C7_AccountInactiveExactly ==
    login.called =>
        ((login.result.status = HTTP_403_FORBIDDEN)
            <=> (LoginFound /\ LoginVerify = "True" /\ ~login.row[1].is_active))

C7_Witness ==
    /\ login.called
    /\ login.result.status = HTTP_403_FORBIDDEN
    /\ \E u \in users : u.email # login.email

C10_MalformedHashIsInvalidCredentials ==
    (login.called /\ LoginFound /\ login.row[1].password.fmt # "bcrypt")
        => /\ LoginVerify = "False"
           /\ login.result = InvalidCredentials

----------------------------------------------------------------------------
(* Inputs *)

EmptyPayload == [k \in {} |-> 0]
Opt(k, V) == {EmptyPayload} \cup {k :> v : v \in V}

Roles == {[t |-> "list", items |-> "admin"], [t |-> "tuple", items |-> "admin"]}

CodecPayloads ==
    {s @@ j @@ r @@ n @@ i :
        s \in Opt("sub", {str_uuid(1)}),
        j \in Opt("jti", {"jti-1"}),
        r \in Opt("roles", Roles),
        n \in Opt("nbf", {0, MaxTime}),
        i \in Opt("iss", {"evil-issuer"})}

SubStrings ==
    {str_uuid(i) : i \in 1..MaxUsers}
        \cup {[form |-> "urn", id |-> 1], [form |-> "garbage", id |-> 0],
              [form |-> "empty", id |-> 0]}

Jtis == {"", "jti-1"}

ResolverPayloads(subs, jtis) ==
    {s @@ j : s \in Opt("sub", subs), j \in Opt("jti", jtis)}

----------------------------------------------------------------------------
(* Specification of the token codec: encode_jwt with every parameter, the  *)
(* clock, and get_current_token_payload.  expires_in is an int and         *)
(* expires_timedelta a timedelta the caller passes unchecked: zero and     *)
(* negative values are among them.                                         *)

IssueAny ==
    /\ issued = None
    /\ \E payload \in CodecPayloads,
          private_key \in {settings_private_key, "other-private.pem"},
          algorithm \in {settings_algorithm, "RS512"},
          expires_in \in {settings_access_token_expires_minutes, TickMinutes, 0},
          expires_timedelta \in {None, Some(0), Some(TickMinutes),
                                 Some(-TickMinutes)},
          issuer \in {settings_issuer, "other-issuer"},
          audience \in {settings_audience, "other-audience"} :
            IssueToken(payload, private_key, algorithm, expires_in,
                       expires_timedelta, issuer, audience)

Bearer ==
    \E credentials \in {GarbageToken} \cup {i.jwt : i \in Range(issued)} :
        get_current_token_payload(credentials)

NextCodec == IssueAny \/ Tick \/ Bearer

SpecCodec == Init /\ [][NextCodec]_vars

----------------------------------------------------------------------------
(* Specification of the identity resolver: rows inserted, the store's      *)
(* other writers, tokens issued with the settings' defaults, protected     *)
(* requests.  The clock takes one step, which orders the writes against    *)
(* the issuance; the resolver itself reads no clock after decoding.        *)

StoreInsert ==
    \E f \in FirstNames, l \in LastNames, e \in Emails, salt \in Salts :
        BaseCrud_create(f, l, e, hash_password("Abcdef1!", salt), TRUE, TRUE)

StoreChange ==
    \E id \in 1..MaxUsers :
        UserDeactivated(id) \/ UserSoftDeleted(id) \/ UserRemoved(id)

IssueDefault(payloads) ==
    /\ issued = None
    /\ \E payload \in payloads :
        IssueToken(payload, settings_private_key, settings_algorithm,
                   settings_access_token_expires_minutes, None,
                   settings_issuer, settings_audience)

NextResolve ==
    \/ StoreInsert
    \/ StoreChange
    \/ IssueDefault(ResolverPayloads(SubStrings, {"jti-1"}))
    \/ TickUpTo(TickMinutes)
    \/ Bearer
    \/ get_current_auth_user
    \/ get_current_active_user

SpecResolve == Init /\ [][NextResolve]_vars

(* The resolver with a revocation store behind the gate. *)
NextGate ==
    \/ StoreInsert
    \/ IssueDefault(ResolverPayloads({str_uuid(1)}, Jtis))
    \/ \E jti \in Jtis : Revoke(jti)
    \/ Bearer
    \/ get_current_auth_user_with("store")

SpecGate == Init /\ [][NextGate]_vars

(* The credential validator and the resolver over a store whose           *)
(* db.execute may raise.                                                   *)
LoginOn ==
    \E store \in StoreOutcomes, e \in Emails, p \in Passwords :
        validate_auth_user_on(store, e, p)

ResolveOn ==
    \E store \in StoreOutcomes : get_current_auth_user_on(store, "placeholder")

NextStore ==
    \/ StoreInsert
    \/ LoginOn
    \/ IssueDefault(ResolverPayloads(SubStrings, {"jti-1"}))
    \/ Bearer
    \/ ResolveOn

SpecStore == Init /\ [][NextStore]_vars

----------------------------------------------------------------------------
(* Claims checked under SpecCodec *)

(* A token signed with the deployment's key and algorithm, carrying the    *)
(* expected issuer and audience.                                           *)
ValidlyIssued(token) ==
    /\ token.wellformed
    /\ token.signed_by = settings_private_key
    /\ token.alg = settings_algorithm
    /\ token.payload["iss"] = settings_issuer
    /\ token.payload["aud"] = settings_audience

(* C2: a token with valid signature, issuer and audience that is presented *)
(* after its exp is rejected by get_current_token_payload with 401 and     *)
(* yields no payload, hence no UserIdentity.                               *)
C2_ExpiredTokenUnauthenticated ==
    (/\ req.stage # "none"
     /\ ValidlyIssued(req.token)
     /\ req.decoded_at > req.token.payload["exp"])
        => /\ req.stage = "done"
           /\ req.payload = None
           /\ req.result = Unauthenticated
           /\ req.result.user = None

C2_Witness ==
    /\ req.stage = "done"
    /\ ValidlyIssued(req.token)
    /\ "nbf" \notin DOMAIN req.token.payload
    /\ req.decoded_at > req.token.payload["exp"]
    /\ req.result.status = HTTP_401_UNAUTHORIZED

(* Signed with the correct key, but with another issuer, another audience  *)
(* or another algorithm in the header than the decoder expects.            *)
WrongIssAudOrAlg(token) ==
    /\ token.wellformed
    /\ token.signed_by = settings_private_key
    /\ \/ token.payload["iss"] # settings_issuer
       \/ token.payload["aud"] # settings_audience
       \/ token.alg # settings_algorithm

(* C3: decode_jwt rejects every token whose issuer or audience differs     *)
(* from the expected one or whose header declares another algorithm than   *)
(* the pinned one, even when it is signed with the correct key; such a     *)
(* token never produces claims.                                            *)
C3_WrongIssAudAlgRejected ==
    /\ \A i \in Range(issued) :
        WrongIssAudOrAlg(i.jwt)
            => ~decode_jwt(i.jwt, settings_public_key, settings_algorithm,
                           settings_issuer, settings_audience, now).ok
    /\ (req.stage # "none" /\ WrongIssAudOrAlg(req.token))
            => (req.stage = "done" /\ req.payload = None)

(* Only the algorithm is wrong, and the token is presented in its lifetime. *)
C3_Witness ==
    /\ req.stage = "done"
    /\ req.token.wellformed
    /\ req.token.signed_by = settings_private_key
    /\ req.token.payload["iss"] = settings_issuer
    /\ req.token.payload["aud"] = settings_audience
    /\ req.token.alg # settings_algorithm
    /\ "nbf" \notin DOMAIN req.token.payload
    /\ req.decoded_at < req.token.payload["exp"]

IssuedWithDefaults(i) ==
    /\ i.private_key = settings_private_key
    /\ i.algorithm = settings_algorithm
    /\ i.issuer = settings_issuer
    /\ i.audience = settings_audience

RoundTrip(i) ==
    decode_jwt(i.jwt, PublicKeyOf(i.private_key), i.algorithm, i.issuer,
               i.audience, now)

Recovers(i) ==
    /\ RoundTrip(i).ok
    /\ payload_get(RoundTrip(i).claims, "sub") = payload_get(i.payload, "sub")
    /\ RoundTrip(i).claims["iss"] = i.issuer
    /\ RoundTrip(i).claims["aud"] = i.audience
    /\ \A k \in DOMAIN i.payload \ RegisteredKeys :
        RoundTrip(i).claims[k] = i.payload[k]

(* C9 as stated: for every claim set C, decode_jwt(encode_jwt(C)) with the *)
(* same keys, issuer and audience, before expiry, returns claims with C's  *)
(* sub, the configured iss and aud, and every custom field of C with the   *)
(* value C gave it.                                                        *)
C9_RoundTripEveryClaimSet ==
    \A i \in Range(issued) :
        (IssuedWithDefaults(i) /\ now < i.jwt.payload["exp"]) => Recovers(i)

(* C9 as amended: the same, for the claim sets whose nbf, when present, is *)
(* not later than the time of decoding and whose custom values are JSON    *)
(* values (a value json.loads(json.dumps(v)) gives back unchanged).        *)
C9_RoundTripJsonClaimSetNbfReached ==
    \A i \in Range(issued) :
        (/\ IssuedWithDefaults(i)
         /\ now < i.jwt.payload["exp"]
         /\ ("nbf" \in DOMAIN i.payload => i.payload["nbf"] <= now)
         /\ \A k \in DOMAIN i.payload \ RegisteredKeys :
                json_roundtrip(k, i.payload[k]) = i.payload[k])
            => Recovers(i)

(* A claim set with sub, jti, a list-valued custom claim, a reached nbf    *)
(* and an "iss" of its own went through encode_jwt and                     *)
(* get_current_token_payload.                                              *)
C9_Witness ==
    \E i \in Range(issued) :
        /\ IssuedWithDefaults(i)
        /\ {"sub", "jti", "roles", "nbf", "iss"} \subseteq DOMAIN i.payload
        /\ i.payload["roles"].t = "list"
        /\ req.stage = "payload"
        /\ req.token = i.jwt
        /\ req.payload = Some(RoundTrip(i).claims)
        /\ Recovers(i)

(* C12: every token issued by encode_jwt has exp strictly greater than     *)
(* iat, for every value of expires_in and of expires_timedelta that the    *)
(* caller or the configuration supplies.                                   *)
C12_ExpAfterIat ==
    \A i \in Range(issued) : i.jwt.payload["exp"] > i.jwt.payload["iat"]

(* What does hold of every issued token: iat is the time of the call and   *)
(* exp - iat is the timedelta when it is truthy, else expires_in minutes.  *)
ExpIsIatPlusLifetime ==
    \A i \in Range(issued) :
        /\ i.jwt.payload["iat"] <= now
        /\ i.jwt.payload["exp"] - i.jwt.payload["iat"]
                \in {Lifetime(expires_in, expires_timedelta) :
                        expires_in \in {settings_access_token_expires_minutes,
                                        TickMinutes, 0},
                        expires_timedelta \in {None, Some(0), Some(TickMinutes),
                                               Some(-TickMinutes)}}

----------------------------------------------------------------------------
(* Claims checked under SpecGate *)

----------------------------------------------------------------------------
(* Claims checked under SpecResolve *)

(* C5: a request with a still-valid token whose sub references a user      *)
(* deleted after issuance (row removed, or deleted_at set) fails with 401;  *)
(* the deleted user is not returned as a UserIdentity.                      *)
C5_DeletedUserUnauthenticated ==
    /\ (req.lookups = 1 /\ req.row = None) => req.result = Unauthenticated
    /\ (/\ req.lookups = 1
        /\ req.row # None
        /\ req.row[1].deleted_at # None
        /\ req.row[1].deleted_at[1] > req.token.payload["iat"])
            => req.result = Unauthenticated

(* C6: for a valid token whose user's is_active became false after         *)
(* issuance, get_current_auth_user returns the identity with is_active     *)
(* false and get_current_active_user rejects it with 403; the stricter     *)
(* gate returns an identity only when is_active is true at request time.   *)
C6_InactiveBasicGateReturnsStrictGateRejects ==
    /\ (req.lookups = 1 /\ req.row # None)
            => /\ req.result = Returned(AuthSchema(req.row[1]))
               /\ req.result.user[1].is_active = req.row[1].is_active
    /\ (req.stage = "done" /\ req.result.kind = "return")
            => req.active =
                IF req.row[1].is_active
                THEN Returned(req.result.user[1])
                ELSE HTTPException(HTTP_403_FORBIDDEN, <<"User is not active.">>)
    /\ req.active.kind = "return"
            => (req.row # None /\ req.row[1].is_active)

(* The user was deactivated after the token was issued; both gates ran.    *)
C6_Witness ==
    /\ req.stage = "done"
    /\ req.result.kind = "return"
    /\ ~req.result.user[1].is_active
    /\ req.row[1].updated_at > req.token.payload["iat"]
    /\ req.active.status = HTTP_403_FORBIDDEN

----------------------------------------------------------------------------
(* Claims checked under SpecStore *)

(* C11: when the user-store lookup fails (the store raises or times out)   *)
(* during validate_auth_user or get_current_auth_user, the call ends with  *)
(* InvalidCredentials respectively Unauthenticated, the lookup having been *)
(* made once, and returns no UserIdentity.                                 *)
C11_LookupFailureIsCredentialError ==
    /\ (login.called /\ login.store # "ok")
            => /\ login.result = InvalidCredentials
               /\ login.lookups = 1
               /\ login.result.user = None
    /\ (req.lookups = 1 /\ req.store # "ok")
            => /\ req.result = Unauthenticated
               /\ req.lookups = 1
               /\ req.result.user = None

(* What does hold of a failed lookup: it is made once, the call ends in    *)
(* the store's exception and no UserIdentity is returned.                  *)
LookupFailureEndsCallOnce ==
    /\ (login.called /\ login.store # "ok")
            => /\ login.result = get_db_reraise(login.store)
               /\ login.lookups = 1
               /\ login.result.user = None
    /\ (req.lookups = 1 /\ req.store # "ok")
            => /\ req.stage = "done"
               /\ req.result = get_db_reraise(req.store)
               /\ req.result.user = None

(* The fields of UserRead / UserSchemas: app/schemas/user.py *)
IdentityFields ==
    {"id", "email", "first_name", "last_name", "is_active", "access",
     "created_at", "updated_at", "deleted_at"}

(* The identity has the identity fields, each with the row's value, and    *)
(* no password field.                                                      *)
CarriesRecord(identity, row, fields) ==
    /\ DOMAIN identity = IdentityFields
    /\ \A f \in fields : identity[f] = row[f]
    /\ "password" \notin DOMAIN identity

(* C13: the UserIdentity returned by validate_auth_user and the one        *)
(* returned by get_current_auth_user carry, for every identity field (id,  *)
(* email, first_name, last_name, is_active, access, created_at,            *)
(* updated_at, deleted_at), the value held by the stored user record at    *)
(* lookup time, and never the password hash.                               *)
C13_IdentityCarriesStoredRecord ==
    /\ (login.called /\ login.result.kind = "return")
            => CarriesRecord(login.result.user[1], login.row[1], IdentityFields)
    /\ (req.lookups = 1 /\ req.result.kind = "return")
            => CarriesRecord(req.result.user[1], req.row[1], IdentityFields)

(* What does hold: the identity of get_current_auth_user carries every     *)
(* field of the row, the one of validate_auth_user every field but access, *)
(* which is False whatever the row holds; neither has the password hash.   *)
IdentityCarriesRecordButLoginAccess ==
    /\ (login.called /\ login.result.kind = "return")
            => /\ CarriesRecord(login.result.user[1], login.row[1],
                                IdentityFields \ {"access"})
               /\ login.result.user[1].access = FALSE
    /\ (req.lookups = 1 /\ req.result.kind = "return")
            => CarriesRecord(req.result.user[1], req.row[1], IdentityFields)

====
